---- MODULE Spec2Model ----
(***************************************************************************)
(* Model of cmd/guacone/cmd/files.go: the "files" command of guacone.      *)
(* The command validates its flags, builds the pipeline (processor,        *)
(* ingestor, assembler), starts the collectors and then fans their         *)
(* documents in: a wait loop selecting on the document and the completion  *)
(* channel, followed by a drain of the document channel.                   *)
(***************************************************************************)
EXTENDS Integers, Sequences, FiniteSets, TLC

(***************************************************************************)
(* Bounds of the model.                                                    *)
(***************************************************************************)
MaxCollectors == 2      \* most collectors Collect may report
MaxDocs == 2            \* most documents sent in one run, all collectors
DocChanCap == 2         \* buffer of the document channel
ErrChanCap == 1         \* buffer of the completion channel
MaxGraphs == 2          \* longest Graph list handed to the assembler alone

(***************************************************************************)
(* Program constants.                                                      *)
(***************************************************************************)
PreviewLen == 10        \* d.Blob[:10] in the two log lines
CredsParts == 2         \* len(credsSplit) != 2
NumArgs == 1            \* len(args) != 1

Nil == "nil"
NoDoc == [src |-> 0, seq |-> 0, blobCap |-> 0, kind |-> "none"]

VARIABLES
    flags,          \* package-level flags: dbAddr, creds, realm
    args,           \* positional arguments
    opts,           \* options returned by validateFlags
    err,            \* Run's err variable
    client,         \* graph client made by getAssembler
    pc,             \* position of Run
    ret,            \* the loop a received document belongs to: "loop", "drain"
    cur,            \* the document emit is working on
    docTree,        \* emit's docTree
    graphs,         \* emit's graphs
    docChan,        \* documents buffered in docChan
    errChan,        \* completion signals buffered in errChan
    numCollectors,  \* numCollectors returned by Collect
    collectorsDone, \* collectorsDone
    prod,           \* per collector: documents sent, completion sent
    sentLog,        \* every document placed on docChan, in order
    emitLog,        \* every document passed to emit, in order
    calls,          \* every stage call, in order
    store,          \* every Graph handed to StoreGraph, in order
    results,        \* outcome of every emit that returned, in order
    inFlight,       \* emit calls begun and not yet returned
    atExit,         \* docChan at the moment the wait loop exited
    doneLog,        \* every completion signal received, in order
    exitCode,       \* exit code of the process, -1 while running
    gsIn,           \* Graph list given to the assembler function alone
    combinedOut     \* Graph the assembler function built from gsIn

vars == <<flags, args, opts, err, client, pc, ret, cur, docTree, graphs,
          docChan, errChan, numCollectors, collectorsDone, prod, sentLog,
          emitLog, calls, store, results, inFlight, atExit, doneLog,
          exitCode, gsIn, combinedOut>>

startVars == <<flags, args, opts, err, client, exitCode>>
emitVars == <<cur, docTree, graphs, ret, inFlight>>
chanVars == <<docChan, errChan, prod, sentLog>>
histVars == <<emitLog, calls, store, results, atExit, doneLog>>
mergeVars == <<gsIn, combinedOut>>

(***************************************************************************)
(* Strings are sequences of one-character strings.                         *)
(***************************************************************************)
\* strings.Split(s, sep) for a one-character separator
RECURSIVE SplitFrom(_, _, _)
SplitFrom(s, sep, acc) ==
    IF s = <<>> THEN <<acc>>
    ELSE IF Head(s) = sep THEN <<acc>> \o SplitFrom(Tail(s), sep, <<>>)
    ELSE SplitFrom(Tail(s), sep, Append(acc, Head(s)))

Split(s, sep) == SplitFrom(s, sep, <<>>)

ZeroOptions == [dbAddr |-> <<>>, user |-> <<>>, pass |-> <<>>,
                realm |-> <<>>, path |-> <<>>]

\* validateFlags accepting any creds with at least two parts
validateFlagsAtLeastTwoParts(f, a) ==
    LET credsSplit == Split(f.creds, ":") IN
    IF Len(credsSplit) < CredsParts
    THEN [opts |-> ZeroOptions, err |-> "creds flag not in correct format user:pass"]
    ELSE LET o1 == [ZeroOptions EXCEPT !.user = credsSplit[1],
                                       !.pass = credsSplit[2],
                                       !.dbAddr = f.dbAddr] IN
         IF Len(a) # NumArgs
         THEN [opts |-> o1, err |-> "expected positional argument for file_path"]
         ELSE [opts |-> [o1 EXCEPT !.path = a[1]], err |-> Nil]

\* validateFlags rejecting only a missing positional argument
validateFlagsAtLeastOneArg(f, a) ==
    LET credsSplit == Split(f.creds, ":") IN
    IF Len(credsSplit) # CredsParts
    THEN [opts |-> ZeroOptions, err |-> "creds flag not in correct format user:pass"]
    ELSE LET o1 == [ZeroOptions EXCEPT !.user = credsSplit[1],
                                       !.pass = credsSplit[2],
                                       !.dbAddr = f.dbAddr] IN
         IF Len(a) < NumArgs
         THEN [opts |-> o1, err |-> "expected positional argument for file_path"]
         ELSE [opts |-> [o1 EXCEPT !.path = a[1]], err |-> Nil]

\* validateFlags(args), reading the package-level flags
validateFlags(f, a) ==
    LET credsSplit == Split(f.creds, ":") IN
    IF Len(credsSplit) # CredsParts
    THEN [opts |-> ZeroOptions, err |-> "creds flag not in correct format user:pass"]
    ELSE LET o1 == [ZeroOptions EXCEPT !.user = credsSplit[1],
                                       !.pass = credsSplit[2],
                                       !.dbAddr = f.dbAddr] IN
         IF Len(a) # NumArgs
         THEN [opts |-> o1, err |-> "expected positional argument for file_path"]
         ELSE [opts |-> [o1 EXCEPT !.path = a[1]], err |-> Nil]


(***************************************************************************)
(* Inputs the model enumerates.                                            *)
(***************************************************************************)
CredsInputs == { <<>>, <<"u">>, <<"u", ":", "p">>,
                 <<"u", ":", "p", ":", "x">> }
ArgsInputs == { <<>>, << <<"d">> >>, << <<"d">>, <<"e">> >> }
RealmInputs == { <<"n">> }
DbAddr == <<"b">>

\* what a collector may send: the capacity of the Blob and how the stages
\* treat the document
DocShapes == { [blobCap |-> 12, kind |-> "ok"],
               [blobCap |-> 12, kind |-> "pfail"],
               [blobCap |-> 12, kind |-> "ifail"],
               [blobCap |-> 4,  kind |-> "ok"] }

Collectors == 1..MaxCollectors

(***************************************************************************)
(* The pipeline stages behind processorFunc and ingestorFunc.              *)
(***************************************************************************)
\* process.Process(ctx, d)
Process(d) ==
    IF d.kind = "pfail"
    THEN [tree |-> NoDoc, err |-> "process"]
    ELSE [tree |-> [src |-> d.src, seq |-> d.seq, kind |-> d.kind], err |-> Nil]

Node(t, i) == <<t.src, t.seq, i>>

\* the Graphs of one document tree: the second repeats a node of the first
GraphsOf(t) ==
    LET g1 == [Nodes |-> <<Node(t, 1)>>, Edges |-> <<>>]
        g2 == [Nodes |-> <<Node(t, 2), Node(t, 1)>>,
               Edges |-> << <<Node(t, 2), Node(t, 1)>> >>]
    IN IF t.seq % 2 = 1 THEN <<g1, g2>> ELSE <<g2>>

\* parser.ParseDocumentTree(doc), wrapped by getIngestor
Ingest(t) ==
    IF t.kind = "ifail"
    THEN [graphs |-> <<>>, err |-> "ingest"]
    ELSE [graphs |-> GraphsOf(t), err |-> Nil]

(***************************************************************************)
(* The assembler function returned by getAssembler.                        *)
(***************************************************************************)
EmptyGraph == [Nodes |-> <<>>, Edges |-> <<>>]

\* combined.AppendGraph(g)
AppendGraph(combined, g) ==
    [Nodes |-> combined.Nodes \o g.Nodes, Edges |-> combined.Edges \o g.Edges]

RECURSIVE CombineFrom(_, _)
CombineFrom(combined, gs) ==
    IF gs = <<>> THEN combined
    ELSE CombineFrom(AppendGraph(combined, Head(gs)), Tail(gs))

\* Combine with each Graph put in front of what was combined so far
RECURSIVE CombineNewestFirst(_)
CombineNewestFirst(gs) ==
    IF gs = <<>> THEN EmptyGraph
    ELSE AppendGraph(CombineNewestFirst(Tail(gs)), Head(gs))

\* combined := Graph{}; for _, g := range gs { combined.AppendGraph(g) }
Combine(gs) == CombineFrom(EmptyGraph, gs)


(***************************************************************************)
(* Initial state: the flags are parsed, Run has not started.               *)
(***************************************************************************)
NoClient == [addr |-> <<>>, user |-> <<>>, pass |-> <<>>, realm |-> <<>>,
             open |-> FALSE]

InitRun ==
    /\ opts = ZeroOptions
    /\ err = Nil
    /\ client = NoClient
    /\ ret = "loop"
    /\ cur = NoDoc
    /\ docTree = NoDoc
    /\ graphs = <<>>
    /\ docChan = <<>>
    /\ errChan = <<>>
    /\ numCollectors = 0
    /\ collectorsDone = 0
    /\ prod = [p \in Collectors |-> [sent |-> 0, done |-> FALSE, onTime |-> 0]]
    /\ sentLog = <<>>
    /\ emitLog = <<>>
    /\ calls = <<>>
    /\ store = <<>>
    /\ results = <<>>
    /\ inFlight = {}
    /\ atExit = <<>>
    /\ doneLog = <<>>
    /\ exitCode = -1
    /\ combinedOut = EmptyGraph

Init ==
    /\ flags \in [dbAddr : {DbAddr}, creds : CredsInputs, realm : RealmInputs]
    /\ args \in ArgsInputs
    /\ pc = "validate"
    /\ gsIn = <<>>
    /\ InitRun

(***************************************************************************)
(* Startup: Run up to the call of Collect.                                 *)
(***************************************************************************)
\* validateFlags whose error is logged while Run carries on
ValidateFlagsNoExit ==
    /\ pc = "validate"
    /\ LET r == validateFlags(flags, args) IN
         /\ opts' = r.opts
         /\ err' = r.err
    /\ pc' = "register"
    /\ UNCHANGED <<flags, args, client, exitCode>>
    /\ UNCHANGED <<emitVars, chanVars, histVars, mergeVars>>
    /\ UNCHANGED <<numCollectors, collectorsDone>>

\* opts, err := validateFlags(args); on error print, Help and os.Exit(1)
ValidateFlags ==
    /\ pc = "validate"
    /\ LET r == validateFlags(flags, args) IN
         /\ opts' = r.opts
         /\ err' = r.err
         /\ IF r.err # Nil
            THEN pc' = "exit" /\ exitCode' = 1
            ELSE pc' = "register" /\ exitCode' = exitCode
    /\ UNCHANGED <<flags, args, client>>
    /\ UNCHANGED <<emitVars, chanVars, histVars, mergeVars>>
    /\ UNCHANGED <<numCollectors, collectorsDone>>

\* RegisterDocumentCollector whose error ends the process
RegisterCollectorFatal ==
    /\ pc = "register"
    /\ \E e \in {Nil, "register"} :
         /\ err' = e
         /\ IF e # Nil
            THEN pc' = "exit" /\ exitCode' = 1
            ELSE pc' = "getProcessor" /\ exitCode' = exitCode
    /\ UNCHANGED <<flags, args, opts, client>>
    /\ UNCHANGED <<emitVars, chanVars, histVars, mergeVars>>
    /\ UNCHANGED <<numCollectors, collectorsDone>>

\* NewFileCollector and err = RegisterDocumentCollector(...): an error is
\* only logged
RegisterCollector ==
    /\ pc = "register"
    /\ \E e \in {Nil, "register"} : err' = e
    /\ pc' = "getProcessor"
    /\ UNCHANGED <<flags, args, opts, client, exitCode>>
    /\ UNCHANGED <<emitVars, chanVars, histVars, mergeVars>>
    /\ UNCHANGED <<numCollectors, collectorsDone>>

\* processorFunc, err := getProcessor(ctx): always a nil error
GetProcessor ==
    /\ pc = "getProcessor"
    /\ err' = Nil
    /\ pc' = "getIngestor"
    /\ UNCHANGED <<flags, args, opts, client, exitCode>>
    /\ UNCHANGED <<emitVars, chanVars, histVars, mergeVars>>
    /\ UNCHANGED <<numCollectors, collectorsDone>>

\* ingestorFunc, err := getIngestor(): always a nil error
GetIngestor ==
    /\ pc = "getIngestor"
    /\ err' = Nil
    /\ pc' = "getAssembler"
    /\ UNCHANGED <<flags, args, opts, client, exitCode>>
    /\ UNCHANGED <<emitVars, chanVars, histVars, mergeVars>>
    /\ UNCHANGED <<numCollectors, collectorsDone>>

\* assemblerFunc, err := getAssembler(opts): the auth token and the client;
\* an error of NewGraphClient exits with 1
GetAssembler ==
    /\ pc = "getAssembler"
    /\ \E ok \in BOOLEAN :
         IF ok
         THEN /\ client' = [addr |-> opts.dbAddr, user |-> opts.user,
                            pass |-> opts.pass, realm |-> opts.realm,
                            open |-> TRUE]
              /\ err' = Nil
              /\ pc' = "collect"
              /\ exitCode' = exitCode
         ELSE /\ client' = client
              /\ err' = "connect"
              /\ pc' = "exit"
              /\ exitCode' = 1
    /\ UNCHANGED <<flags, args, opts>>
    /\ UNCHANGED <<emitVars, chanVars, histVars, mergeVars>>
    /\ UNCHANGED <<numCollectors, collectorsDone>>

\* collector.Collect(ctx): an error is logger.Fatal; collectorsDone := 0
Collect ==
    /\ pc = "collect"
    /\ \/ /\ err' = "collect"
          /\ pc' = "exit"
          /\ exitCode' = 1
          /\ UNCHANGED numCollectors
       \/ /\ \E n \in 0..MaxCollectors : numCollectors' = n
          /\ err' = Nil
          /\ pc' = "loop"
          /\ exitCode' = exitCode
    /\ collectorsDone' = 0
    /\ UNCHANGED <<flags, args, opts, client>>
    /\ UNCHANGED <<emitVars, chanVars, histVars, mergeVars>>

(***************************************************************************)
(* The collectors started by Collect.                                      *)
(***************************************************************************)
Running == pc \in {"loop", "drain", "process", "ingest", "assemble"}

\* a collector sends one document on docChan
CollectorSend(p) ==
    /\ Running
    /\ p \in 1..numCollectors
    /\ ~prod[p].done
    /\ Len(sentLog) < MaxDocs
    /\ Len(docChan) < DocChanCap
    /\ \E sh \in DocShapes :
         LET d == [src |-> p, seq |-> prod[p].sent + 1,
                   blobCap |-> sh.blobCap, kind |-> sh.kind] IN
           /\ docChan' = Append(docChan, d)
           /\ sentLog' = Append(sentLog, d)
    /\ prod' = [prod EXCEPT ![p].sent = @ + 1]
    /\ UNCHANGED <<startVars, emitVars, histVars, mergeVars>>
    /\ UNCHANGED <<pc, errChan, numCollectors, collectorsDone>>

\* a collector ends: it sends its error, or nil, on errChan
CollectorEnd(p) ==
    /\ Running
    /\ p \in 1..numCollectors
    /\ ~prod[p].done
    /\ Len(errChan) < ErrChanCap
    /\ \E e \in {Nil, "failed"} :
         /\ errChan' = Append(errChan, e)
         /\ prod' = [prod EXCEPT ![p].done = TRUE, ![p].onTime = prod[p].sent]
    /\ UNCHANGED <<startVars, emitVars, histVars, mergeVars>>
    /\ UNCHANGED <<pc, docChan, sentLog, numCollectors, collectorsDone>>


(***************************************************************************)
(* The coordinator: the wait loop, emit, and the drain.                    *)
(***************************************************************************)
DocId(d) == <<d.src, d.seq>>

\* emit(d) is entered: the call returns to `from`
BeginEmit(d, from) ==
    /\ pc' = "process"
    /\ cur' = d
    /\ ret' = from
    /\ emitLog' = Append(emitLog, d)
    /\ inFlight' = inFlight \cup {DocId(d)}
    /\ UNCHANGED <<docTree, graphs, exitCode>>

\* the log line slices d.Blob[:10], which panics on a Blob of capacity
\* below 10; then emit(d)
LogAndEmit(d, from) ==
    IF d.blobCap < PreviewLen
    THEN /\ pc' = "panic"
         /\ ret' = from
         /\ exitCode' = 2
         /\ UNCHANGED <<cur, docTree, graphs, inFlight, emitLog>>
    ELSE BeginEmit(d, from)

\* EndEmit with a stage failure treated like a startup failure: the
\* coordinator stops instead of returning to its loop
EndEmitFatal(res) ==
    /\ pc' = IF res = "ok" THEN ret ELSE "exit"
    /\ results' = Append(results, [doc |-> DocId(cur), res |-> res])
    /\ inFlight' = inFlight \ {DocId(cur)}
    /\ cur' = NoDoc
    /\ docTree' = NoDoc
    /\ graphs' = <<>>
    /\ UNCHANGED ret

\* emit returns: its locals are gone
EndEmit(res) ==
    /\ pc' = ret
    /\ results' = Append(results, [doc |-> DocId(cur), res |-> res])
    /\ inFlight' = inFlight \ {DocId(cur)}
    /\ cur' = NoDoc
    /\ docTree' = NoDoc
    /\ graphs' = <<>>
    /\ UNCHANGED ret

\* LoopExit with the loop condition off by one: the loop is left when one
\* completion signal is still missing
LoopExitEarly ==
    /\ pc = "loop"
    /\ ~(collectorsDone + 1 < numCollectors)
    /\ pc' = "drain"
    /\ atExit' = docChan
    /\ UNCHANGED <<startVars, emitVars, chanVars, mergeVars>>
    /\ UNCHANGED <<emitLog, calls, store, results, doneLog>>
    /\ UNCHANGED <<numCollectors, collectorsDone>>

\* LoopExit for a loop that waits for one signal more than there are
\* collectors
LoopExitOffByOne ==
    /\ pc = "loop"
    /\ ~(collectorsDone <= numCollectors)
    /\ pc' = "drain"
    /\ atExit' = docChan
    /\ UNCHANGED <<startVars, emitVars, chanVars, mergeVars>>
    /\ UNCHANGED <<emitLog, calls, store, results, doneLog>>
    /\ UNCHANGED <<numCollectors, collectorsDone>>

\* for collectorsDone < numCollectors: the condition is false
LoopExit ==
    /\ pc = "loop"
    /\ ~(collectorsDone < numCollectors)
    /\ pc' = "drain"
    /\ atExit' = docChan
    /\ UNCHANGED <<startVars, emitVars, chanVars, mergeVars>>
    /\ UNCHANGED <<emitLog, calls, store, results, doneLog>>
    /\ UNCHANGED <<numCollectors, collectorsDone>>

\* RecvDoc with emit started and not waited for, as `go emit(d)` would:
\* the loop goes on receiving while the document is in the pipeline
RecvDocAsync ==
    /\ pc = "loop"
    /\ collectorsDone < numCollectors
    /\ docChan # <<>>
    /\ docChan' = Tail(docChan)
    /\ emitLog' = Append(emitLog, Head(docChan))
    /\ inFlight' = inFlight \cup {DocId(Head(docChan))}
    /\ UNCHANGED <<pc, cur, docTree, graphs, ret, exitCode>>
    /\ UNCHANGED <<flags, args, opts, err, client, mergeVars>>
    /\ UNCHANGED <<errChan, prod, sentLog, calls, store, results, atExit, doneLog>>
    /\ UNCHANGED <<numCollectors, collectorsDone>>

\* case d := <-docChan
RecvDoc ==
    /\ pc = "loop"
    /\ collectorsDone < numCollectors
    /\ docChan # <<>>
    /\ docChan' = Tail(docChan)
    /\ LogAndEmit(Head(docChan), "loop")
    /\ UNCHANGED <<flags, args, opts, err, client, mergeVars>>
    /\ UNCHANGED <<errChan, prod, sentLog, calls, store, results, atExit, doneLog>>
    /\ UNCHANGED <<numCollectors, collectorsDone>>

\* RecvErr with a collector's error ending the wait for the other collectors
RecvErrStops ==
    /\ pc = "loop"
    /\ collectorsDone < numCollectors
    /\ errChan # <<>>
    /\ err' = Head(errChan)
    /\ errChan' = Tail(errChan)
    /\ doneLog' = Append(doneLog, Head(errChan))
    /\ collectorsDone' = IF Head(errChan) # Nil THEN numCollectors
                         ELSE collectorsDone + 1
    /\ UNCHANGED <<flags, args, opts, client, exitCode>>
    /\ UNCHANGED <<emitVars, mergeVars>>
    /\ UNCHANGED <<pc, docChan, prod, sentLog, numCollectors>>
    /\ UNCHANGED <<emitLog, calls, store, results, atExit>>

\* RecvErr counting only the collectors that ended without an error
RecvErrSkipsFailed ==
    /\ pc = "loop"
    /\ collectorsDone < numCollectors
    /\ errChan # <<>>
    /\ err' = Head(errChan)
    /\ errChan' = Tail(errChan)
    /\ doneLog' = Append(doneLog, Head(errChan))
    /\ collectorsDone' = IF Head(errChan) = Nil
                         THEN collectorsDone + 1 ELSE collectorsDone
    /\ UNCHANGED <<flags, args, opts, client, exitCode>>
    /\ UNCHANGED <<emitVars, mergeVars>>
    /\ UNCHANGED <<pc, docChan, prod, sentLog, numCollectors>>
    /\ UNCHANGED <<emitLog, calls, store, results, atExit>>

\* case err = <-errChan: logged either way, collectorsDone += 1
RecvErr ==
    /\ pc = "loop"
    /\ collectorsDone < numCollectors
    /\ errChan # <<>>
    /\ err' = Head(errChan)
    /\ errChan' = Tail(errChan)
    /\ doneLog' = Append(doneLog, Head(errChan))
    /\ collectorsDone' = collectorsDone + 1
    /\ UNCHANGED <<flags, args, opts, client, exitCode>>
    /\ UNCHANGED <<emitVars, mergeVars>>
    /\ UNCHANGED <<pc, docChan, prod, sentLog, numCollectors>>
    /\ UNCHANGED <<emitLog, calls, store, results, atExit>>

\* DrainRecv taking the newest buffered document first
DrainRecvNewest ==
    /\ pc = "drain"
    /\ Len(docChan) > 0
    /\ docChan' = SubSeq(docChan, 1, Len(docChan) - 1)
    /\ LogAndEmit(docChan[Len(docChan)], "drain")
    /\ UNCHANGED <<flags, args, opts, err, client, mergeVars>>
    /\ UNCHANGED <<errChan, prod, sentLog, calls, store, results, atExit, doneLog>>
    /\ UNCHANGED <<numCollectors, collectorsDone>>

\* DrainRecv with the receive not guarded by len(docChan): on an empty
\* channel the coordinator waits for a document
DrainRecvBlocking ==
    /\ pc = "drain"
    /\ IF Len(docChan) > 0
       THEN /\ docChan' = Tail(docChan)
            /\ LogAndEmit(Head(docChan), "drain")
       ELSE /\ pc' = "blocked"
            /\ UNCHANGED <<docChan, emitVars, emitLog, exitCode>>
    /\ UNCHANGED <<flags, args, opts, err, client, mergeVars>>
    /\ UNCHANGED <<errChan, prod, sentLog, calls, store, results, atExit, doneLog>>
    /\ UNCHANGED <<numCollectors, collectorsDone>>

\* for len(docChan) > 0 { d := <-docChan; ...; emit(d) }
DrainRecv ==
    /\ pc = "drain"
    /\ Len(docChan) > 0
    /\ docChan' = Tail(docChan)
    /\ LogAndEmit(Head(docChan), "drain")
    /\ UNCHANGED <<flags, args, opts, err, client, mergeVars>>
    /\ UNCHANGED <<errChan, prod, sentLog, calls, store, results, atExit, doneLog>>
    /\ UNCHANGED <<numCollectors, collectorsDone>>

\* DrainExit without the test of len(docChan)
DrainExitEarly ==
    /\ pc = "drain"
    /\ pc' = "done"
    /\ exitCode' = 0
    /\ UNCHANGED <<flags, args, opts, err, client, mergeVars>>
    /\ UNCHANGED <<emitVars, chanVars, histVars>>
    /\ UNCHANGED <<numCollectors, collectorsDone>>

\* the drain loop ends and Run returns
DrainExit ==
    /\ pc = "drain"
    /\ ~(Len(docChan) > 0)
    /\ pc' = "done"
    /\ exitCode' = 0
    /\ UNCHANGED <<flags, args, opts, err, client, mergeVars>>
    /\ UNCHANGED <<emitVars, chanVars, histVars>>
    /\ UNCHANGED <<numCollectors, collectorsDone>>

\* EmitProcess with the return after the error log missing
EmitProcessNoReturn ==
    /\ pc = "process"
    /\ calls' = Append(calls, [stage |-> "Process", doc |-> DocId(cur)])
    /\ docTree' = Process(cur).tree
    /\ pc' = "ingest"
    /\ UNCHANGED <<cur, graphs, ret, inFlight, results>>
    /\ UNCHANGED <<startVars, chanVars, mergeVars>>
    /\ UNCHANGED <<emitLog, store, atExit, doneLog>>
    /\ UNCHANGED <<numCollectors, collectorsDone>>

\* docTree, err := processorFunc(d); on error log and return
EmitProcess ==
    /\ pc = "process"
    /\ calls' = Append(calls, [stage |-> "Process", doc |-> DocId(cur)])
    /\ LET r == Process(cur) IN
         IF r.err # Nil
         THEN EndEmit("process")
         ELSE /\ docTree' = r.tree
              /\ pc' = "ingest"
              /\ UNCHANGED <<cur, graphs, ret, inFlight, results>>
    /\ UNCHANGED <<startVars, chanVars, mergeVars>>
    /\ UNCHANGED <<emitLog, store, atExit, doneLog>>
    /\ UNCHANGED <<numCollectors, collectorsDone>>

\* graphs, err := ingestorFunc(docTree); on error log and return
EmitIngest ==
    /\ pc = "ingest"
    /\ calls' = Append(calls, [stage |-> "Ingest", doc |-> DocId(cur)])
    /\ LET r == Ingest(docTree) IN
         IF r.err # Nil
         THEN EndEmit("ingest")
         ELSE /\ graphs' = r.graphs
              /\ pc' = "assemble"
              /\ UNCHANGED <<cur, docTree, ret, inFlight, results>>
    /\ UNCHANGED <<startVars, chanVars, mergeVars>>
    /\ UNCHANGED <<emitLog, store, atExit, doneLog>>
    /\ UNCHANGED <<numCollectors, collectorsDone>>

\* EmitAssemble with combined kept across calls instead of starting empty
EmitAssembleKeepsCombined ==
    /\ pc = "assemble"
    /\ calls' = Append(calls, [stage |-> "Store", doc |-> DocId(cur)])
    /\ \E ok \in BOOLEAN :
         /\ store' = Append(store,
                [graph |-> CombineFrom(IF store = <<>> THEN EmptyGraph
                                       ELSE store[Len(store)].graph, graphs),
                 doc |-> DocId(cur), ok |-> ok])
         /\ EndEmit(IF ok THEN "ok" ELSE "store")
    /\ UNCHANGED <<startVars, chanVars, mergeVars>>
    /\ UNCHANGED <<emitLog, atExit, doneLog>>
    /\ UNCHANGED <<numCollectors, collectorsDone>>

\* err = assemblerFunc(graphs): the Graphs are combined and the result is
\* handed to StoreGraph, which may fail; emit returns either way
EmitAssemble ==
    /\ pc = "assemble"
    /\ calls' = Append(calls, [stage |-> "Store", doc |-> DocId(cur)])
    /\ \E ok \in BOOLEAN :
         /\ store' = Append(store, [graph |-> Combine(graphs),
                                    doc |-> DocId(cur), ok |-> ok])
         /\ EndEmit(IF ok THEN "ok" ELSE "store")
    /\ UNCHANGED <<startVars, chanVars, mergeVars>>
    /\ UNCHANGED <<emitLog, atExit, doneLog>>
    /\ UNCHANGED <<numCollectors, collectorsDone>>

Next ==
    \/ ValidateFlags
    \/ RegisterCollector
    \/ GetProcessor
    \/ GetIngestor
    \/ GetAssembler
    \/ Collect
    \/ \E p \in Collectors : CollectorSend(p)
    \/ \E p \in Collectors : CollectorEnd(p)
    \/ LoopExit
    \/ RecvDoc
    \/ RecvErr
    \/ DrainRecv
    \/ DrainExit
    \/ EmitProcess
    \/ EmitIngest
    \/ EmitAssemble

Spec == Init /\ [][Next]_vars


(***************************************************************************)
(* The assembler function on its own: any Graph list, one call.            *)
(***************************************************************************)
SeqsUpTo(S, n) == UNION { [1..k -> S] : k \in 0..n }

GraphInputs == [Nodes : SeqsUpTo({"a", "b"}, 2), Edges : SeqsUpTo({"e"}, 1)]

InitMerge ==
    /\ flags = [dbAddr |-> DbAddr, creds |-> <<"u", ":", "p">>, realm |-> <<"n">>]
    /\ args = << <<"d">> >>
    /\ pc = "merge"
    /\ gsIn \in SeqsUpTo(GraphInputs, MaxGraphs)
    /\ InitRun

\* func(gs []assembler.Graph) error: combine gs, then StoreGraph
AssemblerCall ==
    /\ pc = "merge"
    /\ combinedOut' = Combine(gsIn)
    /\ \E ok \in BOOLEAN :
         store' = Append(store, [graph |-> Combine(gsIn), doc |-> <<0, 0>>,
                                 ok |-> ok])
    /\ pc' = "merged"
    /\ UNCHANGED <<startVars, emitVars, chanVars, gsIn>>
    /\ UNCHANGED <<emitLog, calls, results, atExit, doneLog>>
    /\ UNCHANGED <<numCollectors, collectorsDone>>

NextMerge == AssemblerCall

SpecMerge == InitMerge /\ [][NextMerge]_vars

(***************************************************************************)
(* Where Run is.                                                           *)
(***************************************************************************)
EmitPcs == {"process", "ingest", "assemble"}

\* in the wait loop, a document of the wait loop being emitted included
InWaitLoop == pc = "loop" \/ (pc \in EmitPcs /\ ret = "loop")

\* past the wait loop: in the drain, or after it
PastWaitLoop ==
    \/ pc \in {"drain", "done"}
    \/ (pc \in EmitPcs /\ ret = "drain")
    \/ (pc = "panic" /\ ret = "drain")

(***************************************************************************)
(* C1: the wait loop is left if and only if exactly N completion signals   *)
(* have been received.  collectorsDone counts exactly the signals          *)
(* received; Run is past the wait loop only with collectorsDone = N; while *)
(* collectorsDone < N the loop is not left; and once collectorsDone = N    *)
(* the coordinator's next step leaves the loop, receiving nothing more,    *)
(* however many documents were emitted before.                             *)
(***************************************************************************)
C1_WaitLoopExitsIffAllDone ==
    /\ [](/\ collectorsDone = Len(doneLog)
          /\ PastWaitLoop => collectorsDone = numCollectors
          /\ InWaitLoop => collectorsDone <= numCollectors)
    /\ [][/\ (pc = "loop" /\ collectorsDone < numCollectors) => pc' # "drain"
          /\ (pc = "loop" /\ collectorsDone = numCollectors) =>
                 /\ pc' \in {"loop", "drain"}
                 /\ emitLog' = emitLog
                 /\ doneLog' = doneLog
                 /\ Len(docChan') >= Len(docChan)
                 /\ Len(errChan') >= Len(errChan)]_vars

\* the loop was left after two or more completion signals, with a document
\* emitted in between
C1_Witness ==
    /\ pc = "drain"
    /\ numCollectors >= 2
    /\ collectorsDone = numCollectors
    /\ Len(emitLog) >= 1
    /\ Len(results) >= 1

(***************************************************************************)
(* C2: every document placed on the document channel is passed to emit     *)
(* exactly once.  No document is passed to emit twice, and the coordinator *)
(* never stops (Run returned, or the process died) with a document that    *)
(* was placed on the channel and not passed to emit.  The collectors of    *)
(* this model never send after their completion signal.                    *)
(***************************************************************************)
Stopped == pc \in {"done", "panic"}

EmittedIds == { DocId(emitLog[i]) : i \in DOMAIN emitLog }

NoDoubleEmit ==
    \A i, j \in DOMAIN emitLog : i # j => DocId(emitLog[i]) # DocId(emitLog[j])

C2_EveryDocumentEmittedOnce ==
    /\ NoDoubleEmit
    /\ Stopped => \A i \in DOMAIN sentLog : DocId(sentLog[i]) \in EmittedIds

\* what is left of C2 when Run returns: then emitLog is sentLog
C2_EmittedOnceAtReturn ==
    /\ NoDoubleEmit
    /\ pc = "done" => emitLog = sentLog

(***************************************************************************)
(* C3: the documents buffered in the document channel when the wait loop   *)
(* exits are emitted by the drain, in FIFO order, and the channel is empty *)
(* afterwards.  Once the coordinator has stopped past the wait loop, the   *)
(* channel is empty and the last emits are the documents of atExit, in     *)
(* their order.                                                            *)
(***************************************************************************)
LastEmits(n) ==
    IF n > Len(emitLog) THEN <<>>
    ELSE SubSeq(emitLog, Len(emitLog) - n + 1, Len(emitLog))

DrainedAll == docChan = <<>> /\ LastEmits(Len(atExit)) = atExit

C3_DrainEmitsBufferedInOrder == (Stopped /\ PastWaitLoop) => DrainedAll

\* what is left of C3 when Run returns
C3_DrainedAtReturn == pc = "done" => DrainedAll

(***************************************************************************)
(* C4: the coordinator works on at most one document at a time.  At most   *)
(* one emit is begun and not returned, exactly while Run is inside emit;   *)
(* nothing is received from either channel while an emit is open; and the  *)
(* stage calls of one document are contiguous in the order of calls, so no *)
(* two pipeline runs and no two Store calls overlap.                       *)
(***************************************************************************)
CallsContiguous ==
    \A i, j, k \in DOMAIN calls :
        (i < j /\ j < k /\ calls[i].doc = calls[k].doc) => calls[j].doc = calls[i].doc

C4_OneDocumentAtATime ==
    /\ [](/\ Cardinality(inFlight) <= 1
          /\ (inFlight # {}) <=> (pc \in EmitPcs)
          /\ (pc \in EmitPcs) => inFlight = {DocId(cur)}
          /\ CallsContiguous)
    /\ [][(emitLog' # emitLog \/ doneLog' # doneLog) => inFlight = {}]_vars

\* a document is in the pipeline while another document and a completion
\* signal wait in the channels
C4_Witness ==
    /\ pc = "assemble"
    /\ docChan # <<>>
    /\ errChan # <<>>

(***************************************************************************)
(* C5: the documents of one collector are emitted in the order that        *)
(* collector sent them, the wait loop and the drain taken together: of two *)
(* emitted documents of the same collector the one emitted first was sent  *)
(* first, and a document emitted in the drain was never sent before one of *)
(* the same collector emitted in the wait loop.                            *)
(***************************************************************************)
\* emitLog up to the exit of the wait loop / from it on
EmittedInDrain == { DocId(atExit[i]) : i \in DOMAIN atExit }

C5_PerCollectorOrder ==
    [](
    /\ \A i, j \in DOMAIN emitLog :
         (i < j /\ emitLog[i].src = emitLog[j].src) => emitLog[i].seq < emitLog[j].seq
    /\ PastWaitLoop =>
         \A i, j \in DOMAIN emitLog :
            (/\ emitLog[i].src = emitLog[j].src
             /\ DocId(emitLog[i]) \in EmittedInDrain
             /\ DocId(emitLog[j]) \notin EmittedInDrain)
            => emitLog[j].seq < emitLog[i].seq
    )

\* one collector's first document was emitted in the wait loop and its
\* second in the drain
C5_Witness ==
    /\ pc = "done"
    /\ \E i, j \in DOMAIN emitLog :
         /\ emitLog[i].src = emitLog[j].src
         /\ emitLog[i].seq = 1 /\ emitLog[j].seq = 2
         /\ DocId(emitLog[i]) \notin EmittedInDrain
         /\ DocId(emitLog[j]) \in EmittedInDrain

(***************************************************************************)
(* C6: a stage failure for one document does not stop the coordinator.     *)
(* The step in which an emit returns with a failure puts Run back in the   *)
(* loop the document was received in, leaves collectorsDone, Run's err,    *)
(* both channels and the exit code alone, and leaves no emit open; the     *)
(* outcome of every emit is one its own document allows, whatever happened *)
(* to the documents before it; and when Run returns every document sent    *)
(* has had its emit.                                                       *)
(***************************************************************************)
\* the outcomes the stages allow for a document on its own
Outcomes(d) ==
    IF Process(d).err # Nil THEN {"process"}
    ELSE IF Ingest(Process(d).tree).err # Nil THEN {"ingest"}
    ELSE {"ok", "store"}

EmitFailed == Len(results') = Len(results) + 1 /\ results'[Len(results')].res # "ok"

CountOf(e) == Cardinality({ i \in DOMAIN doneLog : doneLog[i] = e })

StagesOf(id) ==
    LET cs == SelectSeq(calls, LAMBDA c : c.doc = id)
    IN [i \in DOMAIN cs |-> cs[i].stage]

StagesAllowed(d) ==
    IF Process(d).err # Nil THEN <<"Process">>
    ELSE IF Ingest(Process(d).tree).err # Nil THEN <<"Process", "Ingest">>
    ELSE <<"Process", "Ingest", "Store">>

IsPrefix(s, t) == Len(s) <= Len(t) /\ s = SubSeq(t, 1, Len(s))

C8_StagesInOrder ==
    [](
    /\ \A i \in DOMAIN emitLog :
         /\ IsPrefix(StagesOf(DocId(emitLog[i])), StagesAllowed(emitLog[i]))
         /\ i \in DOMAIN results =>
              StagesOf(DocId(emitLog[i])) = StagesAllowed(emitLog[i])
    /\ \A k \in DOMAIN store :
         \E i \in DOMAIN emitLog :
            /\ DocId(emitLog[i]) = store[k].doc
            /\ Process(emitLog[i]).err = Nil
            /\ Ingest(Process(emitLog[i]).tree).err = Nil
    /\ Len(store) = Len(SelectSeq(calls, LAMBDA c : c.stage = "Store"))
    )

\* one emit stopped after a failed Process, another after a failed Ingest
C8_Witness ==
    /\ \E i \in DOMAIN results : results[i].res = "process"
    /\ \E i \in DOMAIN results : results[i].res = "ingest"
    /\ store = <<>>

(***************************************************************************)
(* C9: the merge is a total, order-preserving concatenation.  For every    *)
(* Graph list the assembler function can be called; the Graph it builds    *)
(* has as Nodes the inputs' Nodes one list after the other in input order, *)
(* and as Edges the inputs' Edges likewise; nothing is dropped, so the     *)
(* lengths add up; the empty list gives the empty Graph; and that Graph is *)
(* the one handed to StoreGraph.                                           *)
(***************************************************************************)
RECURSIVE NodesInOrder(_)
NodesInOrder(gs) ==
    IF gs = <<>> THEN <<>> ELSE Head(gs).Nodes \o NodesInOrder(Tail(gs))

RECURSIVE EdgesInOrder(_)
EdgesInOrder(gs) ==
    IF gs = <<>> THEN <<>> ELSE Head(gs).Edges \o EdgesInOrder(Tail(gs))

RECURSIVE SumLen(_, _)
SumLen(gs, field) ==
    IF gs = <<>> THEN 0 ELSE Len(Head(gs)[field]) + SumLen(Tail(gs), field)

C9_MergeIsConcatenation ==
    /\ pc = "merge" => ENABLED AssemblerCall
    /\ pc = "merged" =>
         /\ combinedOut.Nodes = NodesInOrder(gsIn)
         /\ combinedOut.Edges = EdgesInOrder(gsIn)
         /\ Len(combinedOut.Nodes) = SumLen(gsIn, "Nodes")
         /\ Len(combinedOut.Edges) = SumLen(gsIn, "Edges")
         /\ gsIn = <<>> => combinedOut = EmptyGraph
         /\ Len(store) = 1 /\ store[1].graph = combinedOut

\* two different Graphs that share a node were merged
C9_Witness ==
    /\ pc = "merged"
    /\ Len(gsIn) = 2
    /\ gsIn[1] # gsIn[2]
    /\ gsIn[1].Nodes # <<>> /\ gsIn[2].Nodes # <<>>
    /\ gsIn[1].Nodes[1] = gsIn[2].Nodes[1]
    /\ gsIn[1].Edges # <<>>

(***************************************************************************)
(* C10: the store receives exactly one Graph per document whose Process    *)
(* and Ingest succeeded, built from the Graphs of that document alone.     *)
(* The Store calls follow the order in which those documents were          *)
(* received, none missing but that of a document still in emit; the Graph  *)
(* of each call is the concatenation of the Graph list Ingest returned for *)
(* its document, and every node and edge in it is that document's.         *)
(***************************************************************************)
PassesStages(d) == Process(d).err = Nil /\ Ingest(Process(d).tree).err = Nil

ToStore == SelectSeq(emitLog, PassesStages)

GraphFor(d) ==
    LET gs == Ingest(Process(d).tree).graphs
    IN [Nodes |-> NodesInOrder(gs), Edges |-> EdgesInOrder(gs)]

OwnNode(n, id) == <<n[1], n[2]>> = id

C10_OneGraphPerDocument ==
    [](
    /\ Len(store) <= Len(ToStore)
    /\ Len(ToStore) - Len(store) <= 1
    /\ pc \notin EmitPcs => Len(store) = Len(ToStore)
    /\ \A k \in DOMAIN store :
         /\ store[k].doc = DocId(ToStore[k])
         /\ store[k].graph = GraphFor(ToStore[k])
         /\ \A i \in DOMAIN store[k].graph.Nodes :
              OwnNode(store[k].graph.Nodes[i], store[k].doc)
         /\ \A i \in DOMAIN store[k].graph.Edges :
              /\ OwnNode(store[k].graph.Edges[i][1], store[k].doc)
              /\ OwnNode(store[k].graph.Edges[i][2], store[k].doc)
    )

\* the Graphs of two documents were stored, the first made of two Graphs
C10_Witness ==
    /\ Len(store) = 2
    /\ store[1].doc # store[2].doc
    /\ Len(store[1].graph.Nodes) = 3
    /\ store[2].graph.Nodes # <<>>

(***************************************************************************)
(* validateFlags on its own: any creds string and any arguments, one call. *)
(***************************************************************************)
MaxCredsLen == 5        \* longest creds string tried
MaxArgs == 2            \* most positional arguments tried

CredsAlphabet == {"u", "p", ":"}
PathInputs == { <<"d">>, <<"e">> }

InitValidate ==
    /\ flags \in [dbAddr : {DbAddr},
                  creds : SeqsUpTo(CredsAlphabet, MaxCredsLen),
                  realm : RealmInputs]
    /\ args \in SeqsUpTo(PathInputs, MaxArgs)
    /\ pc = "validate"
    /\ gsIn = <<>>
    /\ InitRun

NextValidate == ValidateFlags

SpecValidate == InitValidate /\ [][NextValidate]_vars

CredsError == "creds flag not in correct format user:pass"
ArgsError == "expected positional argument for file_path"

Validated == pc # "validate"

Colons(s) == { i \in DOMAIN s : s[i] = ":" }

\* the text before and after the one ':' of s
BeforeColon(s) == SubSeq(s, 1, (CHOOSE i \in Colons(s) : TRUE) - 1)
AfterColon(s) == SubSeq(s, (CHOOSE i \in Colons(s) : TRUE) + 1, Len(s))

(***************************************************************************)
(* C11: validateFlags accepts the creds string only when it splits on ':'  *)
(* into exactly two parts, that is when it holds exactly one ':'; user is  *)
(* then the text before the ':' and pass the text after it.  A creds       *)
(* string with no ':' (the empty string included) or with two or more      *)
(* gives the creds error.                                                  *)
(***************************************************************************)
C11_CredsShape ==
    Validated =>
        /\ err = Nil => Cardinality(Colons(flags.creds)) = 1
        /\ Cardinality(Colons(flags.creds)) = 1 =>
             /\ err # CredsError
             /\ opts.user = BeforeColon(flags.creds)
             /\ opts.pass = AfterColon(flags.creds)
        /\ Cardinality(Colons(flags.creds)) # 1 =>
             /\ err = CredsError
             /\ pc = "exit"

\* "uu:p" gave user "uu" and pass "p"
C11_Witness ==
    /\ pc = "register"
    /\ flags.creds = <<"u", "u", ":", "p">>
    /\ opts.user = <<"u", "u">>
    /\ opts.pass = <<"p">>

(***************************************************************************)
(* C12: with well-formed creds, validateFlags succeeds if and only if      *)
(* exactly one positional argument is given, and path is then that         *)
(* argument; no argument and two or more arguments both give the error     *)
(* "expected positional argument for file_path".                           *)
(***************************************************************************)
C12_OnePositionalArgument ==
    (Validated /\ Cardinality(Colons(flags.creds)) = 1) =>
        /\ err = Nil <=> Len(args) = 1
        /\ err = Nil => (opts.path = args[1] /\ pc = "register")
        /\ Len(args) # 1 => (err = ArgsError /\ pc = "exit")

\* two arguments with good creds were refused
C12_Witness ==
    /\ pc = "exit"
    /\ Cardinality(Colons(flags.creds)) = 1
    /\ Len(args) = 2
    /\ err = ArgsError

\* ---------------------------------------------------------------------
\* Startup failures
\* ---------------------------------------------------------------------

\* validateFlags returned an error in this run
ValidationFailed == Validated /\ validateFlags(flags, args).err # Nil

\* nothing of the pipeline has happened: no registration attempt, no
\* store client, no Collect, no document sent, received or emitted
NoPipelineWork ==
    /\ client = NoClient
    /\ numCollectors = 0
    /\ collectorsDone = 0
    /\ sentLog = <<>>
    /\ emitLog = <<>>
    /\ calls = <<>>
    /\ store = <<>>
    /\ doneLog = <<>>

\* C13: a run whose validateFlags returned an error is at its exit with
\* code 1 and has done no pipeline work: the failing validation step goes
\* straight to the exit, and nothing follows the exit.
C13_ValidationFailureIsFatal ==
    /\ [](ValidationFailed =>
            /\ pc = "exit"
            /\ exitCode = 1
            /\ err \in {CredsError, ArgsError}
            /\ NoPipelineWork)
    /\ [][ /\ (pc = "validate" /\ validateFlags(flags, args).err # Nil)
                => (pc' = "exit" /\ exitCode' = 1)
           /\ pc # "exit" ]_vars

\* a run stopped by a creds string without a colon
C13_Witness ==
    /\ ValidationFailed
    /\ pc = "exit"
    /\ exitCode = 1
    /\ err = CredsError
    /\ NoPipelineWork

\* the steps of Run that build the stages and start the collectors
ConstructionPcs == {"getProcessor", "getIngestor", "getAssembler", "collect"}

\* C14: the registration step goes on to stage construction whatever its
\* error, and the run is then still alive; a construction step or Collect
\* that leaves an error goes to the exit with code 1; at the exit no
\* document has been received or emitted.  (getProcessor and getIngestor
\* never return an error, so only getAssembler and Collect can take the
\* fatal branch.)
C14_StartupErrorsByKind ==
    /\ [][ /\ pc = "register" => (pc' = "getProcessor" /\ exitCode' = exitCode)
           /\ (pc \in ConstructionPcs /\ err' # Nil)
                => (pc' = "exit" /\ exitCode' = 1)
           /\ (pc \in ConstructionPcs /\ err' = Nil)
                => (pc' \in ConstructionPcs \cup {"loop"} /\ exitCode' = exitCode)
         ]_vars
    /\ []((pc \in ConstructionPcs /\ err = "register")
            => (pc = "getProcessor" /\ exitCode = -1))
    /\ [](pc = "exit" =>
            /\ exitCode = 1
            /\ err # Nil
            /\ err # "register"
            /\ emitLog = <<>>
            /\ calls = <<>>
            /\ doneLog = <<>>
            /\ collectorsDone = 0)

\* a failed registration, with the run about to construct the processor
C14_Witness ==
    /\ pc = "getProcessor"
    /\ err = "register"
    /\ exitCode = -1

\* ---------------------------------------------------------------------
\* Options
\* ---------------------------------------------------------------------

\* C15: after a successful validateFlags the options carry the flags:
\* dbAddr, user and pass of creds, the positional path and the realm; the
\* client made by getAssembler is authenticated for the configured realm.
C15_OptionsCarryFlags ==
    (Validated /\ validateFlags(flags, args).err = Nil) =>
        /\ opts.dbAddr = flags.dbAddr
        /\ opts.user = BeforeColon(flags.creds)
        /\ opts.pass = AfterColon(flags.creds)
        /\ opts.path = args[1]
        /\ opts.realm = flags.realm
        /\ client.open => client.realm = flags.realm

\* every field but the realm is carried
C15_AllButRealm ==
    (Validated /\ validateFlags(flags, args).err = Nil) =>
        /\ opts.dbAddr = flags.dbAddr
        /\ opts.user = BeforeColon(flags.creds)
        /\ opts.pass = AfterColon(flags.creds)
        /\ opts.path = args[1]
        /\ opts.realm = <<>>
        /\ client.open => client.realm = <<>>

\* ---------------------------------------------------------------------
\* Short payloads
\* ---------------------------------------------------------------------

\* the documents the coordinator has taken from the document channel
NumReceived == Len(sentLog) - Len(docChan)

\* C16: a received document is passed to emit whatever its Blob: the
\* coordinator never dies on a receive, and every document taken from the
\* channel, in the wait loop or in the drain, has been passed to emit.
C16_ShortBlobEmitted ==
    /\ pc # "panic"
    /\ exitCode # 2
    /\ Len(emitLog) = NumReceived

\* what holds in the code: only a Blob of capacity below 10 stops the
\* coordinator, and it stops it before emit
C16_OnlyShortBlobPanics ==
    /\ pc # "panic" => Len(emitLog) = NumReceived
    /\ pc = "panic" =>
         /\ exitCode = 2
         /\ Len(emitLog) = NumReceived - 1
         /\ sentLog[NumReceived].blobCap < PreviewLen
    /\ \A i \in DOMAIN emitLog : emitLog[i].blobCap >= PreviewLen

\* ---------------------------------------------------------------------
\* A collector that sends after its completion signal
\* ---------------------------------------------------------------------

\* the documents tried for a late send: well-formed ones, which every
\* stage accepts
LateShapes == { sh \in DocShapes : sh.blobCap >= PreviewLen /\ sh.kind = "ok" }

\* a collector that has sent its completion signal sends one more
\* document; nothing in Run prevents it, and Run may already have left
\* the drain loop
CollectorLateSend(p) ==
    /\ Running \/ pc = "done"
    /\ p \in 1..numCollectors
    /\ prod[p].done
    /\ Len(sentLog) < MaxDocs
    /\ Len(docChan) < DocChanCap
    /\ \E sh \in LateShapes :
         LET d == [src |-> p, seq |-> prod[p].sent + 1,
                   blobCap |-> sh.blobCap, kind |-> sh.kind] IN
           /\ docChan' = Append(docChan, d)
           /\ sentLog' = Append(sentLog, d)
    /\ prod' = [prod EXCEPT ![p].sent = @ + 1]
    /\ UNCHANGED <<startVars, emitVars, histVars, mergeVars>>
    /\ UNCHANGED <<pc, errChan, numCollectors, collectorsDone>>

NextLate ==
    \/ Next
    \/ \E p \in Collectors : CollectorLateSend(p)

SpecLate == Init /\ [][NextLate]_vars

\* d was sent after its collector's completion signal
Late(d) == prod[d.src].done /\ d.seq > prod[d.src].onTime

InDocChan(d) == \E i \in DOMAIN docChan : docChan[i] = d

\* C17: with collectors that may send after their completion signal, Run
\* can return with a sent document never passed to emit.  Every document
\* so lost was sent after its collector's completion signal and is still
\* in the document channel, and after the return nothing is emitted.
C17_LateDocumentsCanBeLost ==
    /\ [](pc = "done" =>
            \A i \in DOMAIN sentLog :
                DocId(sentLog[i]) \notin EmittedIds
                    => (Late(sentLog[i]) /\ InDocChan(sentLog[i])))
    /\ [][pc = "done" => (pc' = "done" /\ emitLog' = emitLog)]_vars

\* Run has returned: the wait loop exited, the drain saw the channel
\* empty, and a document sent after its collector's signal was never
\* passed to emit
C17_Witness ==
    /\ pc = "done"
    /\ collectorsDone = numCollectors
    /\ \E i \in DOMAIN sentLog :
         /\ Late(sentLog[i])
         /\ DocId(sentLog[i]) \notin EmittedIds
         /\ InDocChan(sentLog[i])

\* ---------------------------------------------------------------------
\* Termination
\* ---------------------------------------------------------------------

\* the steps of the goroutine that runs Run, stage calls included
RunStep ==
    \/ ValidateFlags
    \/ RegisterCollector
    \/ GetProcessor
    \/ GetIngestor
    \/ GetAssembler
    \/ Collect
    \/ LoopExit
    \/ RecvDoc
    \/ RecvErr
    \/ DrainRecv
    \/ DrainExit
    \/ EmitProcess
    \/ EmitIngest
    \/ EmitAssemble

\* the scheduler runs every goroutine that can run: Run's goroutine takes
\* its next step, every stage call returns, and every collector sends its
\* completion signal once errChan has room
FairSpec ==
    /\ Spec
    /\ WF_vars(RunStep)
    /\ \A p \in Collectors : WF_vars(CollectorEnd(p))

\* Run has returned or the process has ended
Terminated == pc \in {"done", "exit", "panic"}

C19_CompletedCountMonotone ==
    /\ [](/\ 0 <= collectorsDone
          /\ collectorsDone <= numCollectors
          /\ collectorsDone = Len(doneLog))
    /\ [][ /\ \/ collectorsDone' = collectorsDone
              \/ collectorsDone' = collectorsDone + 1
           /\ (collectorsDone' = collectorsDone + 1)
                <=> (/\ pc = "loop"
                     /\ errChan # <<>>
                     /\ errChan' = Tail(errChan)
                     /\ doneLog' = Append(doneLog, Head(errChan)))
           /\ (emitLog' # emitLog \/ calls' # calls \/ results' # results)
                => collectorsDone' = collectorsDone
           /\ PastWaitLoop => collectorsDone' = collectorsDone
         ]_vars

\* Run returned after counting a failed and a graceful collector, with a
\* stage failure in between
C19_Witness ==
    /\ pc = "done"
    /\ collectorsDone = 2
    /\ \E i, j \in DOMAIN doneLog : doneLog[i] = "failed" /\ doneLog[j] = Nil
    /\ \E i \in DOMAIN results : results[i].res # "ok"

\* ---------------------------------------------------------------------
\* The drain
\* ---------------------------------------------------------------------

\* C20: in the drain the coordinator can always take a step; it receives
\* only from a channel that holds a document and gets the oldest one; on
\* an empty channel it returns; nobody else takes documents from the
\* channel; and with numCollectors = 0 the wait loop receives nothing and
\* Run goes from the loop to the drain and returns.
C20_DrainNeverBlocks ==
    /\ [](pc = "drain" => ENABLED (DrainRecv \/ DrainExit))
    /\ [][ /\ (pc = "drain" /\ pc' # "drain") =>
                IF Len(docChan) > 0
                THEN /\ docChan' = Tail(docChan)
                     /\ \/ (pc' = "process" /\ cur' = Head(docChan))
                        \/ pc' = "panic"
                ELSE pc' = "done" /\ docChan' = docChan
           /\ Len(docChan') < Len(docChan) =>
                /\ pc \in {"loop", "drain"}
                /\ pc' \in {"process", "panic"}
                /\ docChan' = Tail(docChan)
           /\ (pc = "loop" /\ numCollectors = 0) =>
                (pc' = "drain" /\ emitLog' = emitLog /\ doneLog' = doneLog)
         ]_vars
    /\ []((numCollectors = 0 /\ pc \in {"loop", "drain", "done"}) =>
            (sentLog = <<>> /\ emitLog = <<>> /\ doneLog = <<>>))

\* the drain has received a document while another one is still buffered
C20_Witness ==
    /\ pc \in EmitPcs
    /\ ret = "drain"
    /\ docChan # <<>>
    /\ Len(atExit) >= 2

====
